---- MODULE Spec2Model ----
(***************************************************************************)
(* EveryIBus: slave-side iBUS telemetry responder (src/src/EveryIBus.cpp,  *)
(* src/src/EveryIBus.h).                                                   *)
(*                                                                         *)
(* State of one EveryIBus object plus the serial transport it is attached  *)
(* to.  Array indices are the source's (0-based): sensors[0..3],           *)
(* packet[0..3], response[0..5].  The transport's buffers rx and tx are    *)
(* sequences of bytes in wire order.                                       *)
(*                                                                         *)
(* Not modelled: _debug and the debug printing (it writes to another port  *)
(* and changes no protocol state), _currentSensorIndex and                 *)
(* getNextAvailableAddress (never read / never called), and the float      *)
(* conversions of setInternalVoltage/setExternalVoltage/setTemperature     *)
(* (they only compute the rawValue handed to setSensorValue).              *)
(***************************************************************************)
EXTENDS Integers, Sequences, FiniteSets

VARIABLES
    serial,         \* _serial: FALSE = nullptr, TRUE = attached by begin()
    sensors,        \* _sensors[MAX_SENSORS]: type, value, hasValue
    anyDiscovered,  \* _anyDiscovered
    packetCount,    \* _packetCount
    responseCount,  \* _responseCount
    rx,             \* transport receive buffer (bytes the master sent, unread)
    tx,             \* bytes written to the transport since the master last sent
    lastSet,        \* history: per sensor type, {} or {rawValue of the latest setSensorValue call}
    updated,        \* history: some setSensorValue call replaced a stored value by another one
    scenario,       \* history: progress of the run along the end-to-end scenario
    shortPoll,      \* history: update() has returned with 1..3 bytes left buffered
    flushedFrame,   \* history: clearSerialBuffer() has discarded a whole answerable request
    malformedPolled, \* history: handlePacket has consumed a frame that is no well-formed request
    wire,           \* bus master: bytes of its current request not yet in rx
    garbled,        \* bus: number of noise bytes that have entered rx
    frame,          \* checksum harness: the 4-byte frame under test, frame[0..3]
    flipped,        \* checksum harness: one bit of frame has been flipped
    verdict         \* checksum harness: "none" or the result of validatePacket(frame)

vars == <<serial, sensors, anyDiscovered, packetCount, responseCount, rx, tx,
          lastSet, updated, scenario, shortPoll, flushedFrame, malformedPolled, wire, garbled,
          frame, flipped, verdict>>

engineVars == <<serial, sensors, anyDiscovered, packetCount, responseCount, rx, tx,
                lastSet, updated, scenario, shortPoll, flushedFrame, malformedPolled, wire, garbled>>

harnessVars == <<frame, flipped, verdict>>

\* ---------------------------------------------------------------- constants

MAX_SENSORS == 4

IBUS_SENSOR_INTERNAL_VOLTAGE == 0
IBUS_SENSOR_TEMPERATURE == 1
IBUS_SENSOR_RPM == 2
IBUS_SENSOR_EXTERNAL_VOLTAGE == 3

IBUS_CMD_DISCOVER == 128
IBUS_CMD_TYPE == 144
IBUS_CMD_MEASUREMENT == 160

\* The type the constructor writes into unused slots (0xFF).
INVALID_TYPE == 255

\* ---------------------------------------------------------------- bounds

\* Update is disabled once _packetCount has reached this value.
MaxPackets == 2

\* The same cap in the end-to-end specification, which needs three polls.
MaxScenarioPackets == 3

\* The checksum harness draws the address nibble of cmdAddr from 0..MaxAddrNibble.
MaxAddrNibble == 5

\* Arrive is disabled when the receive buffer would exceed this many bytes.
MaxBuffered == 4

\* The modulus of the uint32_t counters _packetCount and _responseCount.  The source's
\* modulus is 2^32; no protocol decision reads the counters, so a small modulus changes
\* only the value at which they wrap.  It exceeds every cap on the number of polls.
CounterWrap == 5

\* The byte-wise bus delivers no byte while the receive buffer holds this many.
MaxBusBuffered == 8

\* The number of noise bytes the byte-wise bus may inject.
MaxNoise == 1

\* ---------------------------------------------------------------- integer helpers

Byte == 0..255

\* Conversion to uint8_t / uint16_t.
U8(x) == x % 256

U16(x) == x % 65536

RECURSIVE BitAnd(_, _)
\* a & b on non-negative integers.
BitAnd(a, b) ==
    IF a = 0 \/ b = 0 THEN 0
    ELSE (IF a % 2 = 1 /\ b % 2 = 1 THEN 1 ELSE 0) + 2 * BitAnd(a \div 2, b \div 2)

RECURSIVE BitOr(_, _)
\* a | b on non-negative integers.
BitOr(a, b) ==
    IF a = 0 THEN b
    ELSE IF b = 0 THEN a
    ELSE (IF a % 2 = 1 \/ b % 2 = 1 THEN 1 ELSE 0) + 2 * BitOr(a \div 2, b \div 2)

RECURSIVE BitXor(_, _)
\* a ^ b on non-negative integers (used by the harness to flip one bit).
BitXor(a, b) ==
    IF a = 0 THEN b
    ELSE IF b = 0 THEN a
    ELSE (IF (a % 2) # (b % 2) THEN 1 ELSE 0) + 2 * BitXor(a \div 2, b \div 2)

RECURSIVE Pow2(_)
Pow2(k) == IF k = 0 THEN 1 ELSE 2 * Pow2(k - 1)

\* The bytes of a 0-based array a[0..n-1] as a sequence in index order.
ArrayToSeq(a, n) == [i \in 1..n |-> a[i - 1]]

\* The first n bytes of a sequence as a 0-based array.
SeqToArray(s, n) == [i \in 0..(n - 1) |-> s[i + 1]]

\* ---------------------------------------------------------------- pure functions

RECURSIVE SumBytes(_, _)
\* The loop of calculateChecksum: sum (a uint16_t) after `length` iterations.
SumBytes(data, length) ==
    IF length = 0 THEN 0 ELSE U16(SumBytes(data, length - 1) + data[length - 1])

\* uint16_t calculateChecksum(uint8_t* data, uint8_t length)
calculateChecksum(data, length) == U16(65535 - SumBytes(data, length))

\* validatePacket reading the received checksum big-endian (packet[2] << 8 | packet[3]).
validatePacket_BigEndian(pkt) ==
    IF pkt[0] # 4 THEN FALSE
    ELSE LET expectedChecksum == U16(65535 - (pkt[0] + pkt[1]))
             receivedChecksum == U16(BitOr(U16(pkt[2] * 256), pkt[3]))
         IN  expectedChecksum = receivedChecksum

\* validatePacket comparing only the low byte of the checksum.
validatePacket_LowByteOnly(pkt) ==
    IF pkt[0] # 4 THEN FALSE
    ELSE LET expectedChecksum == U16(65535 - (pkt[0] + pkt[1]))
         IN  BitAnd(expectedChecksum, 255) = pkt[2]

\* bool validatePacket(uint8_t* packet)
validatePacket(pkt) ==
    IF pkt[0] # 4 THEN FALSE
    ELSE LET expectedChecksum == U16(65535 - (pkt[0] + pkt[1]))
             receivedChecksum == U16(BitOr(U16(pkt[3] * 256), pkt[2]))
         IN  expectedChecksum = receivedChecksum

\* findSensorIndex reporting "not found" for every type.
findSensorIndex_NeverFound(sensorType) == -1

\* findSensorIndex with its loop starting at i = 1.
findSensorIndex_FromOne(sensorType) ==
    LET hits == {i \in 1..(MAX_SENSORS - 1) :
                    sensors[i].hasValue /\ sensors[i].type = sensorType}
    IN  IF hits = {} THEN -1
        ELSE CHOOSE i \in hits : \A j \in hits : i <= j

\* int8_t findSensorIndex(uint8_t sensorType): first slot in index order, or -1.
findSensorIndex(sensorType) ==
    LET hits == {i \in 0..(MAX_SENSORS - 1) :
                    sensors[i].hasValue /\ sensors[i].type = sensorType}
    IN  IF hits = {} THEN -1
        ELSE CHOOSE i \in hits : \A j \in hits : i <= j

\* The "find empty slot" loop run from the top: last slot without a value, or -1.
FirstEmptySlot_FromTop ==
    LET free == {i \in 0..(MAX_SENSORS - 1) : ~sensors[i].hasValue}
    IN  IF free = {} THEN -1
        ELSE CHOOSE i \in free : \A j \in free : i >= j

\* The "find empty slot" loop of setSensorValue: first slot without a value, or -1.
FirstEmptySlot ==
    LET free == {i \in 0..(MAX_SENSORS - 1) : ~sensors[i].hasValue}
    IN  IF free = {} THEN -1
        ELSE CHOOSE i \in free : \A j \in free : i <= j

\* setSensorValue that, finding no free slot, stores the value in the last slot.
setSensorValue_FullWritesValue(sensorType, rawValue) ==
    LET index == findSensorIndex(sensorType)
    IN  IF index = -1
        THEN IF FirstEmptySlot # -1
             THEN [sensors EXCEPT ![FirstEmptySlot] =
                      [type |-> sensorType, value |-> rawValue, hasValue |-> TRUE]]
             ELSE [sensors EXCEPT ![MAX_SENSORS - 1].value = rawValue]
        ELSE [sensors EXCEPT ![index].value = rawValue]

\* setSensorValue that, finding no free slot, reuses slot 0 for the new type.
setSensorValue_FullEvicts(sensorType, rawValue) ==
    LET index == findSensorIndex(sensorType)
    IN  IF index = -1
        THEN IF FirstEmptySlot # -1
             THEN [sensors EXCEPT ![FirstEmptySlot] =
                      [type |-> sensorType, value |-> rawValue, hasValue |-> TRUE]]
             ELSE [sensors EXCEPT ![0] =
                      [type |-> sensorType, value |-> rawValue, hasValue |-> TRUE]]
        ELSE [sensors EXCEPT ![index].value = rawValue]

\* setSensorValue that leaves the value of an existing sensor as it is.
setSensorValue_KeepsOldValue(sensorType, rawValue) ==
    LET index == findSensorIndex(sensorType)
    IN  IF index = -1
        THEN IF FirstEmptySlot # -1
             THEN [sensors EXCEPT ![FirstEmptySlot] =
                      [type |-> sensorType, value |-> rawValue, hasValue |-> TRUE]]
             ELSE sensors
        ELSE sensors

\* void setSensorValue(uint8_t sensorType, uint16_t rawValue): the new _sensors.
setSensorValue(sensorType, rawValue) ==
    LET index == findSensorIndex(sensorType)
    IN  IF index = -1
        THEN IF FirstEmptySlot # -1
             THEN [sensors EXCEPT ![FirstEmptySlot] =
                      [type |-> sensorType, value |-> rawValue, hasValue |-> TRUE]]
             ELSE sensors
        ELSE [sensors EXCEPT ![index].value = rawValue]

\* void sendPacket(uint8_t* data, uint8_t length): the bytes put on the wire.
sendPacket(data, length) ==
    IF ~serial THEN <<>> ELSE ArrayToSeq(data, length)

\* What a handler did: bytes written, _responseCount increments, _anyDiscovered set.
NoResponse == [bytes |-> <<>>, sent |-> 0, discovered |-> FALSE]

\* sendDiscoveryResponse without the _responseCount++ after sendPacket.
sendDiscoveryResponse_Uncounted(address) ==
    LET r0 == 4
        r1 == U8(BitOr(128, address))
        checksum == U16(65535 - (r0 + r1))
        response == [i \in 0..3 |->
                        CASE i = 0 -> r0
                          [] i = 1 -> r1
                          [] i = 2 -> BitAnd(checksum, 255)
                          [] i = 3 -> BitAnd(checksum \div 256, 255)]
    IN  [bytes |-> sendPacket(response, 4), sent |-> 0, discovered |-> FALSE]

\* void sendDiscoveryResponse(uint8_t address)
sendDiscoveryResponse(address) ==
    LET r0 == 4
        r1 == U8(BitOr(128, address))
        checksum == U16(65535 - (r0 + r1))
        response == [i \in 0..3 |->
                        CASE i = 0 -> r0
                          [] i = 1 -> r1
                          [] i = 2 -> BitAnd(checksum, 255)
                          [] i = 3 -> BitAnd(checksum \div 256, 255)]
    IN  [bytes |-> sendPacket(response, 4), sent |-> 1, discovered |-> FALSE]

\* handleDiscoveryCommand answering without looking at the slot.
handleDiscoveryCommand_NoGate(address) ==
    [sendDiscoveryResponse(address) EXCEPT !.discovered = TRUE]

\* void handleDiscoveryCommand(uint8_t address)
handleDiscoveryCommand(address) ==
    IF address <= MAX_SENSORS /\ sensors[address - 1].hasValue
    THEN [sendDiscoveryResponse(address) EXCEPT !.discovered = TRUE]
    ELSE NoResponse

\* sendTypeResponse without the hasValue test of its first line.
sendTypeResponse_NoGate(address) ==
    IF address > MAX_SENSORS THEN NoResponse
    ELSE LET head == [i \in 0..3 |->
                         CASE i = 0 -> 6
                           [] i = 1 -> U8(BitOr(144, address))
                           [] i = 2 -> sensors[address - 1].type
                           [] i = 3 -> 2]
             checksum == calculateChecksum(head, 4)
             response == [i \in 0..5 |->
                             CASE i <= 3 -> head[i]
                               [] i = 4 -> BitAnd(checksum, 255)
                               [] i = 5 -> BitAnd(checksum \div 256, 255)]
         IN  [bytes |-> sendPacket(response, 6), sent |-> 1, discovered |-> FALSE]

\* sendTypeResponse that also sets _anyDiscovered.
sendTypeResponse_SetsDiscovered(address) ==
    IF address > MAX_SENSORS \/ ~sensors[address - 1].hasValue THEN NoResponse
    ELSE LET head == [i \in 0..3 |->
                         CASE i = 0 -> 6
                           [] i = 1 -> U8(BitOr(144, address))
                           [] i = 2 -> sensors[address - 1].type
                           [] i = 3 -> 2]
             checksum == calculateChecksum(head, 4)
             response == [i \in 0..5 |->
                             CASE i <= 3 -> head[i]
                               [] i = 4 -> BitAnd(checksum, 255)
                               [] i = 5 -> BitAnd(checksum \div 256, 255)]
         IN  [bytes |-> sendPacket(response, 6), sent |-> 1, discovered |-> TRUE]

\* void sendTypeResponse(uint8_t address)
sendTypeResponse(address) ==
    IF address > MAX_SENSORS \/ ~sensors[address - 1].hasValue THEN NoResponse
    ELSE LET head == [i \in 0..3 |->
                         CASE i = 0 -> 6
                           [] i = 1 -> U8(BitOr(144, address))
                           [] i = 2 -> sensors[address - 1].type
                           [] i = 3 -> 2]
             checksum == calculateChecksum(head, 4)
             response == [i \in 0..5 |->
                             CASE i <= 3 -> head[i]
                               [] i = 4 -> BitAnd(checksum, 255)
                               [] i = 5 -> BitAnd(checksum \div 256, 255)]
         IN  [bytes |-> sendPacket(response, 6), sent |-> 1, discovered |-> FALSE]

\* sendMeasurementResponse writing the value high byte first.
sendMeasurementResponse_BigEndian(address) ==
    IF address > MAX_SENSORS \/ ~sensors[address - 1].hasValue THEN NoResponse
    ELSE LET value == sensors[address - 1].value
             head == [i \in 0..3 |->
                         CASE i = 0 -> 6
                           [] i = 1 -> U8(BitOr(160, address))
                           [] i = 2 -> BitAnd(value \div 256, 255)
                           [] i = 3 -> BitAnd(value, 255)]
             checksum == calculateChecksum(head, 4)
             response == [i \in 0..5 |->
                             CASE i <= 3 -> head[i]
                               [] i = 4 -> BitAnd(checksum, 255)
                               [] i = 5 -> BitAnd(checksum \div 256, 255)]
         IN  [bytes |-> sendPacket(response, 6), sent |-> 1, discovered |-> FALSE]

\* void sendMeasurementResponse(uint8_t address)
sendMeasurementResponse(address) ==
    IF address > MAX_SENSORS \/ ~sensors[address - 1].hasValue THEN NoResponse
    ELSE LET value == sensors[address - 1].value
             head == [i \in 0..3 |->
                         CASE i = 0 -> 6
                           [] i = 1 -> U8(BitOr(160, address))
                           [] i = 2 -> BitAnd(value, 255)
                           [] i = 3 -> BitAnd(value \div 256, 255)]
             checksum == calculateChecksum(head, 4)
             response == [i \in 0..5 |->
                             CASE i <= 3 -> head[i]
                               [] i = 4 -> BitAnd(checksum, 255)
                               [] i = 5 -> BitAnd(checksum \div 256, 255)]
         IN  [bytes |-> sendPacket(response, 6), sent |-> 1, discovered |-> FALSE]

\* dispatch that does not call validatePacket.
dispatch_NoValidate(pkt) ==
    LET command == BitAnd(pkt[1], 240)
        address == BitAnd(pkt[1], 15)
    IN  IF address >= 1 /\ address <= 4
        THEN CASE command = IBUS_CMD_DISCOVER -> handleDiscoveryCommand(address)
               [] command = IBUS_CMD_TYPE -> sendTypeResponse(address)
               [] command = IBUS_CMD_MEASUREMENT -> sendMeasurementResponse(address)
               [] OTHER -> NoResponse
        ELSE NoResponse

\* The body of handlePacket between reading the packet and clearing the buffer.
dispatch(pkt) ==
    IF validatePacket(pkt)
    THEN LET command == BitAnd(pkt[1], 240)
             address == BitAnd(pkt[1], 15)
         IN  IF address >= 1 /\ address <= 4
             THEN CASE command = IBUS_CMD_DISCOVER -> handleDiscoveryCommand(address)
                    [] command = IBUS_CMD_TYPE -> sendTypeResponse(address)
                    [] command = IBUS_CMD_MEASUREMENT -> sendMeasurementResponse(address)
                    [] OTHER -> NoResponse
             ELSE NoResponse
    ELSE NoResponse

\* ---------------------------------------------------------------- inputs

\* Sensor types handed to setSensorValue: the four of the header, and 0xFF.
SensorTypes ==
    {IBUS_SENSOR_INTERNAL_VOLTAGE, IBUS_SENSOR_TEMPERATURE, IBUS_SENSOR_RPM,
     IBUS_SENSOR_EXTERNAL_VOLTAGE, INVALID_TYPE}

\* The setSensorValue calls the application makes, as <<sensorType, rawValue>>:
\* setInternalVoltage(5.08), setTemperature(21.12), setRPM(4294), setRPM(4328),
\* setExternalVoltage(12.41), and a raw call with the unused-slot type 0xFF.
SetCalls ==
    {<<IBUS_SENSOR_INTERNAL_VOLTAGE, 508>>, <<IBUS_SENSOR_TEMPERATURE, 611>>,
     <<IBUS_SENSOR_RPM, 4294>>, <<IBUS_SENSOR_RPM, 4328>>,
     <<IBUS_SENSOR_EXTERNAL_VOLTAGE, 1241>>, <<INVALID_TYPE, 65535>>}

\* A request as the bus master frames it: [length, cmdAddr, checksum lo, checksum hi],
\* checksum = 0xFFFF - (length + cmdAddr) mod 65536.
RequestFrame(length, cmdAddr) ==
    LET checksum == U16(65535 - (length + cmdAddr))
    IN  <<length, cmdAddr, checksum % 256, checksum \div 256>>

DiscoverRequest(address) == RequestFrame(4, IBUS_CMD_DISCOVER + address)

TypeRequest(address) == RequestFrame(4, IBUS_CMD_TYPE + address)

MeasurementRequest(address) == RequestFrame(4, IBUS_CMD_MEASUREMENT + address)

\* The master's polls of the addresses 1..n.
Requests(n) ==
    {RequestFrame(4, cmd + a) :
        cmd \in {IBUS_CMD_DISCOVER, IBUS_CMD_TYPE, IBUS_CMD_MEASUREMENT}, a \in 1..n}

\* The 4-byte frame f is no request the master builds for a sensor address: its length
\* byte is not 0x04, its last two bytes are not the little-endian 0xFFFF - (f[1] + f[2]),
\* its address nibble is outside 1..4, or its command nibble is none of 0x80, 0x90, 0xA0.
Malformed(f) ==
    \/ f[1] # 4
    \/ f[3] + 256 * f[4] # 65535 - (f[1] + f[2])
    \/ (f[2] % 16) \notin 1..4
    \/ 16 * (f[2] \div 16) \notin {128, 144, 160}

\* ---------------------------------------------------------------- history

\* scenario follows the end-to-end run from a fresh engine: "fresh", "registered"
\* after setRPM(4294), "discovered" after polling DISCOVER 1, "typed" after TYPE 1,
\* "measured" after MEASUREMENT 1; "off" once the run has left that sequence.
ScenarioAfterSet(sensorType, rawValue) ==
    IF scenario = "fresh" /\ sensorType = IBUS_SENSOR_RPM /\ rawValue = 4294
    THEN "registered" ELSE "off"

ScenarioAfterPacket ==
    CASE scenario = "registered" /\ rx = DiscoverRequest(1) -> "discovered"
      [] scenario = "discovered" /\ rx = TypeRequest(1) -> "typed"
      [] scenario = "typed" /\ rx = MeasurementRequest(1) -> "measured"
      [] OTHER -> "off"

\* Whether setSensorValue(sensorType, rawValue) overwrites a different stored value.
Overwrites(sensorType, rawValue) ==
    \E i \in 0..(MAX_SENSORS - 1) :
        /\ sensors[i].hasValue
        /\ sensors[i].type = sensorType
        /\ sensors[i].value # rawValue

\* ---------------------------------------------------------------- operations

\* EveryIBus::EveryIBus(), and the transport before begin().
InitEngine ==
    /\ serial = FALSE
    /\ sensors = [i \in 0..(MAX_SENSORS - 1) |->
                     [type |-> INVALID_TYPE, value |-> 0, hasValue |-> FALSE]]
    /\ anyDiscovered = FALSE
    /\ packetCount = 0
    /\ responseCount = 0
    /\ rx = <<>>
    /\ tx = <<>>
    /\ lastSet = [t \in SensorTypes |-> {}]
    /\ updated = FALSE
    /\ scenario = "fresh"
    /\ shortPoll = FALSE
    /\ flushedFrame = FALSE
    /\ malformedPolled = FALSE
    /\ wire = <<>>
    /\ garbled = 0

Init ==
    /\ InitEngine
    /\ frame = [i \in 0..3 |-> 0]
    /\ flipped = FALSE
    /\ verdict = "none"

\* begin() that also zeroes the statistics counters.
Begin_ResetsCounters ==
    /\ serial' = TRUE
    /\ rx' = <<>>
    /\ packetCount' = 0
    /\ responseCount' = 0
    /\ UNCHANGED <<sensors, anyDiscovered, tx,
                   lastSet, updated, scenario, shortPoll, flushedFrame, malformedPolled, wire, garbled>>

\* void begin(HardwareSerial& serial): attach, settle, clearSerialBuffer().
Begin ==
    /\ serial' = TRUE
    /\ rx' = <<>>
    /\ UNCHANGED <<sensors, anyDiscovered, packetCount, responseCount, tx,
                   lastSet, updated, scenario, shortPoll, flushedFrame, malformedPolled, wire, garbled>>

\* The bus master puts bytes on the wire; it does so after reading the reply to its
\* previous request (half-duplex), which empties tx.
Arrive(bytes) ==
    /\ serial
    /\ Len(rx) + Len(bytes) <= MaxBuffered
    /\ rx' = rx \o bytes
    /\ tx' = <<>>
    /\ UNCHANGED <<serial, sensors, anyDiscovered, packetCount, responseCount,
                   lastSet, updated, scenario, shortPoll, flushedFrame, malformedPolled, wire, garbled>>

\* setSensorValue(sensorType, rawValue), reached through setRPM and the other setters.
SetSensorValue(sensorType, rawValue) ==
    /\ sensors' = setSensorValue(sensorType, rawValue)
    /\ lastSet' = [lastSet EXCEPT ![sensorType] = {rawValue}]
    /\ updated' = (updated \/ Overwrites(sensorType, rawValue))
    /\ scenario' = ScenarioAfterSet(sensorType, rawValue)
    /\ UNCHANGED <<serial, anyDiscovered, packetCount, responseCount, rx, tx,
                   shortPoll, flushedFrame, malformedPolled, wire, garbled>>

\* The request that clearSerialBuffer() throws away behind the packet just read, if
\* the buffer held a second whole request this engine would have answered.
FlushesFrame ==
    /\ Len(rx) >= 8
    /\ dispatch(SeqToArray(SubSeq(rx, 5, 8), 4)).bytes # <<>>

\* handlePacket without the trailing clearSerialBuffer(): the unread bytes stay.
handlePacket_NoFlush ==
    LET pkt == SeqToArray(rx, 4)
        done == dispatch(pkt)
    IN  /\ packetCount' = (packetCount + 1) % CounterWrap
        /\ tx' = tx \o done.bytes
        /\ responseCount' = (responseCount + done.sent) % CounterWrap
        /\ anyDiscovered' = (anyDiscovered \/ done.discovered)
        /\ rx' = SubSeq(rx, 5, Len(rx))
        /\ scenario' = ScenarioAfterPacket
        /\ flushedFrame' = (flushedFrame \/ FlushesFrame)
        /\ malformedPolled' = (malformedPolled \/ Malformed(SubSeq(rx, 1, 4)))
        /\ UNCHANGED <<serial, sensors, lastSet, updated, shortPoll, wire, garbled>>

\* handlePacket that goes on to the next 4 buffered bytes before it flushes.
handlePacket_Drain ==
    LET pkt == SeqToArray(rx, 4)
        done == dispatch(pkt)
        more == IF Len(rx) >= 8
                THEN dispatch(SeqToArray(SubSeq(rx, 5, 8), 4))
                ELSE NoResponse
        read == IF Len(rx) >= 8 THEN 2 ELSE 1
    IN  /\ packetCount' = (packetCount + read) % CounterWrap
        /\ tx' = tx \o done.bytes \o more.bytes
        /\ responseCount' = (responseCount + done.sent + more.sent) % CounterWrap
        /\ anyDiscovered' = (anyDiscovered \/ done.discovered \/ more.discovered)
        /\ rx' = <<>>
        /\ scenario' = ScenarioAfterPacket
        /\ flushedFrame' = (flushedFrame \/ FlushesFrame)
        /\ malformedPolled' = (malformedPolled \/ Malformed(SubSeq(rx, 1, 4)))
        /\ UNCHANGED <<serial, sensors, lastSet, updated, shortPoll, wire, garbled>>

\* handlePacket that counts a packet only once validatePacket has accepted it.
handlePacket_CountsValidOnly ==
    LET pkt == SeqToArray(rx, 4)
        done == dispatch(pkt)
    IN  /\ packetCount' = (packetCount + (IF validatePacket(pkt) THEN 1 ELSE 0)) % CounterWrap
        /\ tx' = tx \o done.bytes
        /\ responseCount' = (responseCount + done.sent) % CounterWrap
        /\ anyDiscovered' = (anyDiscovered \/ done.discovered)
        /\ rx' = <<>>
        /\ scenario' = ScenarioAfterPacket
        /\ flushedFrame' = (flushedFrame \/ FlushesFrame)
        /\ malformedPolled' = (malformedPolled \/ Malformed(SubSeq(rx, 1, 4)))
        /\ UNCHANGED <<serial, sensors, lastSet, updated, shortPoll, wire, garbled>>

\* void handlePacket(): read 4 bytes, count, dispatch, clearSerialBuffer().
\* The counters are uint32_t and wrap; CounterWrap stands for 2^32.
handlePacket ==
    LET pkt == SeqToArray(rx, 4)
        done == dispatch(pkt)
    IN  /\ packetCount' = (packetCount + 1) % CounterWrap
        /\ tx' = tx \o done.bytes
        /\ responseCount' = (responseCount + done.sent) % CounterWrap
        /\ anyDiscovered' = (anyDiscovered \/ done.discovered)
        /\ rx' = <<>>
        /\ scenario' = ScenarioAfterPacket
        /\ flushedFrame' = (flushedFrame \/ FlushesFrame)
        /\ malformedPolled' = (malformedPolled \/ Malformed(SubSeq(rx, 1, 4)))
        /\ UNCHANGED <<serial, sensors, lastSet, updated, shortPoll, wire, garbled>>

\* update() that discards a partial packet instead of waiting for the rest of it.
Update_FlushesShort ==
    IF serial /\ Len(rx) >= 4
    THEN handlePacket
    ELSE /\ shortPoll' = (shortPoll \/ (serial /\ Len(rx) > 0))
         /\ rx' = <<>>
         /\ UNCHANGED <<serial, sensors, anyDiscovered, packetCount, responseCount,
                        tx, lastSet, updated, scenario, flushedFrame, malformedPolled, wire, garbled>>

\* void update()
Update ==
    IF serial /\ Len(rx) >= 4
    THEN handlePacket
    ELSE /\ shortPoll' = (shortPoll \/ (serial /\ Len(rx) > 0))
         /\ UNCHANGED <<serial, sensors, anyDiscovered, packetCount, responseCount,
                        rx, tx, lastSet, updated, scenario, flushedFrame, malformedPolled, wire, garbled>>

\* ---------------------------------------------------------------- specifications

Next ==
    \/ Begin /\ UNCHANGED harnessVars
    \/ \E c \in SetCalls : SetSensorValue(c[1], c[2]) /\ UNCHANGED harnessVars
    \/ \E f \in Requests(MAX_SENSORS) : Arrive(f) /\ UNCHANGED harnessVars
    \/ packetCount < MaxPackets /\ Update /\ UNCHANGED harnessVars

Spec == Init /\ [][Next]_vars

\* The registry under every setSensorValue call, with the master polling address 1 only.
NextRegistry ==
    \/ Begin /\ UNCHANGED harnessVars
    \/ \E c \in SetCalls : SetSensorValue(c[1], c[2]) /\ UNCHANGED harnessVars
    \/ \E f \in Requests(1) : Arrive(f) /\ UNCHANGED harnessVars
    \/ packetCount < MaxPackets /\ Update /\ UNCHANGED harnessVars

SpecRegistry == Init /\ [][NextRegistry]_vars

\* The end-to-end run: two sensor types, the master polls addresses 1 and 2, and
\* three polls are allowed.
ScenarioCalls ==
    {<<IBUS_SENSOR_RPM, 4294>>, <<IBUS_SENSOR_RPM, 4328>>,
     <<IBUS_SENSOR_INTERNAL_VOLTAGE, 508>>}

NextE2E ==
    \/ Begin /\ UNCHANGED harnessVars
    \/ \E c \in ScenarioCalls : SetSensorValue(c[1], c[2]) /\ UNCHANGED harnessVars
    \/ \E f \in Requests(2) : Arrive(f) /\ UNCHANGED harnessVars
    \/ packetCount < MaxScenarioPackets /\ Update /\ UNCHANGED harnessVars

SpecE2E == Init /\ [][NextE2E]_vars

\* The checksum harness: validatePacket applied to a frame the master built from a
\* header [length, cmdAddr], and to that frame with one bit flipped.
CmdAddrs ==
    {cmd + a : cmd \in {IBUS_CMD_DISCOVER, IBUS_CMD_TYPE, IBUS_CMD_MEASUREMENT},
               a \in 0..MaxAddrNibble} \cup {0, 255}

InitValidate ==
    /\ InitEngine
    /\ \E length \in Byte, cmdAddr \in CmdAddrs :
          frame = SeqToArray(RequestFrame(length, cmdAddr), 4)
    /\ flipped = FALSE
    /\ verdict = "none"

Validate ==
    /\ verdict = "none"
    /\ verdict' = IF validatePacket(frame) THEN "valid" ELSE "invalid"
    /\ UNCHANGED <<frame, flipped>>
    /\ UNCHANGED engineVars

FlipBit(i, k) ==
    /\ ~flipped
    /\ frame' = [frame EXCEPT ![i] = BitXor(@, Pow2(k))]
    /\ flipped' = TRUE
    /\ verdict' = "none"
    /\ UNCHANGED engineVars

NextValidate ==
    \/ Validate
    \/ \E i \in 0..3, k \in 0..7 : FlipBit(i, k)

SpecValidate == InitValidate /\ [][NextValidate]_vars

\* Malformed and unanswerable traffic: a request the master builds correctly next to
\* frames with a wrong length byte, a damaged checksum, an address nibble of 0, 5 or 15,
\* and a command nibble that is none of DISCOVER, TYPE, MEASUREMENT.
BadChecksum(f) == <<f[1], f[2], (f[3] + 1) % 256, f[4]>>

BadFrames ==
    {RequestFrame(6, IBUS_CMD_MEASUREMENT + 1),
     BadChecksum(MeasurementRequest(1)),
     BadChecksum(DiscoverRequest(2)),
     RequestFrame(4, IBUS_CMD_DISCOVER + 0),
     RequestFrame(4, IBUS_CMD_TYPE + 5),
     RequestFrame(4, IBUS_CMD_MEASUREMENT + 15),
     RequestFrame(4, 176 + 1),
     RequestFrame(4, 0 + 2)}

NextFrames ==
    \/ Begin /\ UNCHANGED harnessVars
    \/ \E c \in ScenarioCalls : SetSensorValue(c[1], c[2]) /\ UNCHANGED harnessVars
    \/ \E f \in Requests(MAX_SENSORS) \cup BadFrames : Arrive(f) /\ UNCHANGED harnessVars
    \/ packetCount < MaxPackets /\ Update /\ UNCHANGED harnessVars

SpecFrames == Init /\ [][NextFrames]_vars

\* The byte-wise bus.  The master starts a request once the previous one has left the
\* wire, the bytes of a request enter rx one at a time, and a noise byte may enter rx
\* between any two of them.  update() may run between any two bytes, or late.
BusCalls == {<<IBUS_SENSOR_RPM, 4294>>}

BusRequests == {MeasurementRequest(1), DiscoverRequest(1)}

NoiseBytes == {0}

MasterSend(f) ==
    /\ serial
    /\ wire = <<>>
    /\ wire' = f
    /\ tx' = <<>>
    /\ UNCHANGED <<serial, sensors, anyDiscovered, packetCount, responseCount, rx,
                   lastSet, updated, scenario, shortPoll, flushedFrame, malformedPolled, garbled>>

ByteArrives ==
    /\ wire # <<>>
    /\ Len(rx) < MaxBusBuffered
    /\ rx' = Append(rx, Head(wire))
    /\ wire' = Tail(wire)
    /\ UNCHANGED <<serial, sensors, anyDiscovered, packetCount, responseCount, tx,
                   lastSet, updated, scenario, shortPoll, flushedFrame, malformedPolled, garbled>>

Garble(b) ==
    /\ serial
    /\ garbled < MaxNoise
    /\ Len(rx) < MaxBusBuffered
    /\ rx' = Append(rx, b)
    /\ garbled' = garbled + 1
    /\ UNCHANGED <<serial, sensors, anyDiscovered, packetCount, responseCount, tx,
                   lastSet, updated, scenario, shortPoll, flushedFrame, malformedPolled, wire>>

NextBus ==
    \/ ~serial /\ Begin /\ UNCHANGED harnessVars
    \/ \E c \in BusCalls : SetSensorValue(c[1], c[2]) /\ UNCHANGED harnessVars
    \/ \E f \in BusRequests : MasterSend(f) /\ UNCHANGED harnessVars
    \/ ByteArrives /\ UNCHANGED harnessVars
    \/ \E b \in NoiseBytes : Garble(b) /\ UNCHANGED harnessVars
    \/ packetCount < MaxPackets /\ Update /\ UNCHANGED harnessVars

SpecBus == Init /\ [][NextBus]_vars

\* The same bus with no cap on the number of polls and with the scheduling the source
\* relies on: loop() keeps calling update(), the master keeps sending MEASUREMENT
\* requests for address 1, and the UART keeps delivering the bytes on the wire.  Here
\* loop() is faster than the bus: no byte arrives while a whole packet waits in rx, so
\* update() never finds more than four bytes and its flush discards nothing.
PromptRequests == {MeasurementRequest(1)}

PollStep == Update /\ UNCHANGED harnessVars

SendStep == \E f \in PromptRequests : MasterSend(f) /\ UNCHANGED harnessVars

ByteStep == Len(rx) < 4 /\ ByteArrives /\ UNCHANGED harnessVars

NextBusFair ==
    \/ ~serial /\ Begin /\ UNCHANGED harnessVars
    \/ \E c \in BusCalls : SetSensorValue(c[1], c[2]) /\ UNCHANGED harnessVars
    \/ SendStep
    \/ ByteStep
    \/ \E b \in NoiseBytes : Len(rx) < 4 /\ Garble(b) /\ UNCHANGED harnessVars
    \/ PollStep

SpecBusFair ==
    /\ Init
    /\ [][NextBusFair]_vars
    /\ WF_vars(PollStep)
    /\ WF_vars(SendStep)
    /\ WF_vars(ByteStep)

\* ---------------------------------------------------------------- C1, C2: checksum

\* C1 as stated: for every header [length, cmdAddr], validatePacket accepts the frame
\* [length, cmdAddr, checksum & 0xFF, checksum >> 8] the master builds from it.
C1_AnyHeaderAccepted ==
    (~flipped /\ verdict # "none") => verdict = "valid"

\* C1 amended: validatePacket accepts the frame built from [length, cmdAddr] exactly
\* when length = 0x04 (for every cmdAddr); a well-checksummed frame with any other
\* length byte is rejected.
C1_AcceptedIffLengthFour ==
    (~flipped /\ verdict # "none") => (verdict = "valid" <=> frame[0] = 4)

\* A well-formed 4-byte request has been validated and accepted.
C1_Witness ==
    ~flipped /\ frame[0] = 4 /\ frame[1] = IBUS_CMD_MEASUREMENT + 2 /\ verdict = "valid"

\* C2: a frame built with the correct checksum and then changed in exactly one bit
\* of one of its 4 bytes is rejected by validatePacket.
C2_SingleBitFlipRejected ==
    (flipped /\ verdict # "none") => verdict = "invalid"

\* A valid request whose checksum high byte lost one bit has been validated.
C2_Witness ==
    /\ flipped
    /\ verdict = "invalid"
    /\ frame[0] = 4
    /\ frame[2] = U16(65535 - (frame[0] + frame[1])) % 256
    /\ frame[3] # U16(65535 - (frame[0] + frame[1])) \div 256

\* ---------------------------------------------------------------- C3, C4, C9, C10: registry

Slots == 0..(MAX_SENSORS - 1)

\* The occupied slots holding type t, before and after a step.
SlotsOf(t) == {i \in Slots : sensors[i].hasValue /\ sensors[i].type = t}

SlotsOfAfter(t) == {i \in Slots : sensors'[i].hasValue /\ sensors'[i].type = t}

\* C3: when type T is already stored by an earlier setSensorValue(T, v1), a call
\* setSensorValue(T, v2) leaves exactly one occupied slot of type T, that slot is the
\* one T had before (same address), it holds v2, and no other slot changes.
C3_RegistrationIdempotence ==
    [][\A c \in SetCalls :
          (rx' = rx /\ packetCount' = packetCount /\ lastSet'[c[1]] = {c[2]}
              /\ lastSet[c[1]] # {} /\ SlotsOf(c[1]) # {} /\ SetSensorValue(c[1], c[2]))
          => /\ Cardinality(SlotsOfAfter(c[1])) = 1
             /\ SlotsOfAfter(c[1]) = SlotsOf(c[1])
             /\ \A i \in SlotsOfAfter(c[1]) : sensors'[i].value = c[2]
             /\ \A i \in Slots \ SlotsOf(c[1]) : sensors'[i] = sensors[i]]_vars

\* setRPM(4294) then setRPM(4328) have run: RPM is stored once, with 4328.
C3_Witness ==
    /\ updated
    /\ lastSet[IBUS_SENSOR_RPM] = {4328}
    /\ \E i \in Slots : sensors[i] = [type |-> IBUS_SENSOR_RPM, value |-> 4328, hasValue |-> TRUE]

\* C4: with all 4 slots occupied, setSensorValue(T, v) for a type T held by no
\* occupied slot changes no slot, no counter, no flag and no transport byte.
C4_CapacityBound ==
    [][\A c \in SetCalls :
          (sensors[MAX_SENSORS - 1].hasValue /\ lastSet'[c[1]] = {c[2]}
              /\ (\A i \in Slots : sensors[i].hasValue) /\ SlotsOf(c[1]) = {}
              /\ SetSensorValue(c[1], c[2]))
          => UNCHANGED <<sensors, packetCount, responseCount, anyDiscovered,
                         serial, rx, tx>>]_vars

\* A fifth type has been handed to setSensorValue on a full registry and is not stored.
C4_Witness ==
    /\ \A i \in Slots : sensors[i].hasValue
    /\ \E t \in SensorTypes : lastSet[t] # {} /\ SlotsOf(t) = {}

\* C9: a slot that is occupied with type T is still occupied with type T after any
\* step (setSensorValue, update, begin, bytes arriving), so its address never changes.
C9_AddressStability ==
    [][\A i \in Slots :
          sensors[i].hasValue
          => sensors'[i].hasValue /\ sensors'[i].type = sensors[i].type]_vars

\* A full registry that has since seen an overwrite, a dropped fifth type and two polls.
C9_Witness ==
    /\ \A i \in Slots : sensors[i].hasValue
    /\ updated
    /\ \E t \in SensorTypes : lastSet[t] # {} /\ SlotsOf(t) = {}
    /\ packetCount = 2

\* C10: no two occupied slots hold the same type, 0xFF included.
C10_TypeUniqueness ==
    \A i \in Slots : \A j \in Slots :
        (i # j /\ sensors[i].hasValue /\ sensors[j].hasValue)
        => sensors[i].type # sensors[j].type

\* A full registry one slot of which holds type 0xFF, while another type was set twice.
C10_Witness ==
    /\ \A i \in Slots : sensors[i].hasValue
    /\ SlotsOf(INVALID_TYPE) # {}
    /\ updated

\* ---------------------------------------------------------------- C5, C6, C7: responses

\* A 6-byte response as the protocol defines it: [0x06, b1, b2, b3, chkLo, chkHi] with
\* chk = (0xFFFF - (0x06 + b1 + b2 + b3)) mod 65536.
Response6(b1, b2, b3) ==
    LET chk == (65535 - (6 + b1 + b2 + b3)) % 65536
    IN  <<6, b1, b2, b3, chk % 256, chk \div 256>>

\* update() runs handlePacket on the 4-byte frame f.
Polls(f) ==
    serial /\ Len(rx) >= 4 /\ SubSeq(rx, 1, 4) = f /\ Update

\* C5: polling a valid DISCOVER frame for address a in 1..4 writes nothing when slot
\* a-1 is unoccupied, and when it is occupied writes exactly [0x04, 0x80|a, lo, hi]
\* with hi<<8|lo = 0xFFFF - (0x04 + (0x80|a)), the request frame itself.
C5_DiscoveryGating ==
    [][\A a \in 1..MAX_SENSORS :
          Polls(DiscoverRequest(a))
          => IF sensors[a - 1].hasValue
             THEN LET chk == 65535 - (4 + (128 + a))
                  IN  /\ tx' = tx \o <<4, 128 + a, chk % 256, chk \div 256>>
                      /\ tx' = tx \o SubSeq(rx, 1, 4)
             ELSE tx' = tx]_vars

\* A discovery echo for an occupied address is on the wire while a higher address is
\* still unoccupied.
C5_Witness ==
    \E a \in 1..MAX_SENSORS :
        /\ sensors[a - 1].hasValue
        /\ ~sensors[MAX_SENSORS - 1].hasValue
        /\ anyDiscovered
        /\ tx = DiscoverRequest(a)

\* C6: polling a valid MEASUREMENT frame for an occupied address a writes exactly
\* [0x06, 0xA0|a, v & 0xFF, v >> 8, chkLo, chkHi], v being the rawValue of the latest
\* setSensorValue call for the type slot a-1 holds.
C6_MeasurementEncoding ==
    [][\A a \in 1..MAX_SENSORS :
          (Polls(MeasurementRequest(a)) /\ sensors[a - 1].hasValue)
          => \E v \in lastSet[sensors[a - 1].type] :
                tx' = tx \o Response6(160 + a, v % 256, v \div 256)]_vars

\* Value 0x10E8, stored over an earlier value, has been reported at address 2 as
\* [0x06, 0xA2, 0xE8, 0x10, 0x5F, 0xFE].
C6_Witness ==
    /\ updated
    /\ sensors[1].value = 4328
    /\ tx = <<6, 162, 232, 16, 95, 254>>

\* C7: polling a valid TYPE frame for address a in 1..4 writes exactly
\* [0x06, 0x90|a, type of slot a-1, 0x02, chkLo, chkHi] when slot a-1 is occupied and
\* nothing when it is not.
C7_TypeResponse ==
    [][\A a \in 1..MAX_SENSORS :
          Polls(TypeRequest(a))
          => IF sensors[a - 1].hasValue
             THEN tx' = tx \o Response6(144 + a, sensors[a - 1].type, 2)
             ELSE tx' = tx]_vars

\* A TYPE response for an occupied address is on the wire while a higher address is
\* still unoccupied.
C7_Witness ==
    \E a \in 1..MAX_SENSORS :
        /\ sensors[a - 1].hasValue
        /\ ~sensors[MAX_SENSORS - 1].hasValue
        /\ tx = Response6(144 + a, sensors[a - 1].type, 2)

\* ---------------------------------------------------------------- C8: end to end

\* C8: from a fresh engine, setRPM(4294) puts RPM (type 0x02) in slot 0 (address 1);
\* polling DISCOVER 1 then writes the 4-byte echo and sets _anyDiscovered; polling
\* TYPE 1 then writes [0x06, 0x91, 0x02, 0x02, chkLo, chkHi]; polling MEASUREMENT 1
\* then writes [0x06, 0xA1, 0xC6, 0x10, chkLo, chkHi], and both counters are 3.
C8_EndToEnd ==
    [][/\ (scenario = "fresh" /\ scenario' = "registered")
          => sensors'[0] = [type |-> 2, value |-> 4294, hasValue |-> TRUE]
       /\ (scenario = "registered" /\ scenario' = "discovered")
          => /\ tx' = <<4, 129, 122, 255>>
             /\ 255 * 256 + 122 = 65535 - (4 + 129)
             /\ ~anyDiscovered /\ anyDiscovered'
       /\ (scenario = "discovered" /\ scenario' = "typed")
          => /\ tx' = <<6, 145, 2, 2, 100, 255>>
             /\ tx' = Response6(145, 2, 2)
       /\ (scenario = "typed" /\ scenario' = "measured")
          => /\ tx' = <<6, 161, 198, 16, 130, 254>>
             /\ tx' = Response6(161, 198, 16)
             /\ responseCount' = 3
             /\ packetCount' = 3]_vars

\* The whole scenario has run.
C8_Witness == scenario = "measured"

\* ---------------------------------------------------------------- C11, C12: one frame per poll

\* A well-formed request of the master for an address whose slot is occupied.
Answerable(f) ==
    /\ f \in Requests(MAX_SENSORS)
    /\ sensors[(f[2] % 16) - 1].hasValue

\* What the protocol has the slave answer to the answerable request f: the echo for
\* DISCOVER, [type, 0x02] for TYPE, the little-endian value for MEASUREMENT.
ExpectedAnswer(f) ==
    LET slot == sensors[(f[2] % 16) - 1]
        cmd == 16 * (f[2] \div 16)
    IN  IF cmd = 128 THEN f
        ELSE IF cmd = 144 THEN Response6(f[2], slot.type, 2)
        ELSE Response6(f[2], slot.value % 256, slot.value \div 256)

\* C11: a poll that consumes a 4-byte frame, valid or not, leaves the receive buffer
\* empty; when two whole answerable requests are buffered, the poll writes the answer
\* to the first and nothing else, and the second is gone from the buffer unanswered.
C11_PostProcessingFlush ==
    [][(serial /\ Len(rx) >= 4 /\ Update)
       => /\ rx' = <<>>
          /\ (Len(rx) >= 8 /\ Answerable(SubSeq(rx, 1, 4)) /\ Answerable(SubSeq(rx, 5, 8)))
             => /\ tx' = tx \o ExpectedAnswer(SubSeq(rx, 1, 4))
                /\ responseCount' = responseCount + 1]_vars

\* One poll has found two answerable requests buffered: one answer is on the wire, one
\* response is counted, and the buffer is empty.
C11_Witness ==
    /\ flushedFrame
    /\ packetCount = 1
    /\ responseCount = 1
    /\ rx = <<>>
    /\ Len(tx) \in {4, 6}

\* The bytes a step has appended to tx.
Written == SubSeq(tx', Len(tx) + 1, Len(tx'))

\* C12: one call of update(), however many bytes are buffered, counts at most one
\* packet and appends at most one response frame to tx: nothing, or the 4- or 6-byte
\* answer to the first four buffered bytes.
C12_OneRequestPerStep ==
    [][Update
       => /\ packetCount' \in {packetCount, packetCount + 1}
          /\ responseCount' \in {responseCount, responseCount + 1}
          /\ Len(tx') >= Len(tx)
          /\ SubSeq(tx', 1, Len(tx)) = tx
          /\ Len(Written) \in {0, 4, 6}
          /\ Written # <<>>
             => /\ Len(rx) >= 4
                /\ Answerable(SubSeq(rx, 1, 4))
                /\ Written = ExpectedAnswer(SubSeq(rx, 1, 4))]_vars

\* One poll has found two MEASUREMENT requests buffered and tx holds the one 6-byte
\* answer [0x06, 0xA1, 0xC6, 0x10, 0x82, 0xFE].
C12_Witness ==
    /\ flushedFrame
    /\ packetCount = 1
    /\ tx = <<6, 161, 198, 16, 130, 254>>

\* ---------------------------------------------------------------- C13: silent absorption

\* The frame f is one the protocol has the slave ignore: it is malformed (wrong length
\* byte, checksum mismatch, address nibble outside 1..4, unknown command nibble), or
\* the slot of its address is unoccupied.
Absorbed(f) ==
    \/ Malformed(f)
    \/ ~sensors[(f[2] % 16) - 1].hasValue

\* C13: a poll that consumes such a frame writes no byte and leaves the registry, the
\* responses-sent counter and the ever-discovered flag as they were.
C13_SilentAbsorption ==
    [][(serial /\ Len(rx) >= 4 /\ Update /\ Absorbed(SubSeq(rx, 1, 4)))
       => /\ tx' = tx
          /\ sensors' = sensors
          /\ responseCount' = responseCount
          /\ anyDiscovered' = anyDiscovered]_vars

\* Two frames, a malformed one among them, have been consumed by an engine with an
\* occupied slot, and neither was answered.
C13_Witness ==
    /\ malformedPolled
    /\ sensors[0].hasValue
    /\ packetCount = 2
    /\ responseCount = 0
    /\ tx = <<>>
    /\ ~anyDiscovered

\* ---------------------------------------------------------------- C14: counters

\* C14: from one state to the next, under every begin, setSensorValue, arrival and
\* update step, neither _packetCount nor _responseCount decreases.
C14_CounterMonotonicity ==
    [][/\ packetCount' >= packetCount
       /\ responseCount' >= responseCount]_vars

\* Both counters have moved: two frames received, one of them answered, and the
\* transport re-attached or a value set afterwards would have to leave them.
C14_Witness ==
    /\ packetCount = 2
    /\ responseCount = 1

\* ---------------------------------------------------------------- C15: resynchronization

\* C15 as stated: on the bus where bytes arrive over time, update() is called again and
\* again and the master keeps sending valid requests for the occupied address 1,
\* whenever a garbled byte has entered the buffer and no answer is on the wire, an
\* answer is eventually written: some request is framed on its own 4-byte boundary.
C15_GuaranteedResynchronization ==
    (serial /\ sensors[0].hasValue /\ garbled > 0 /\ tx = <<>>) ~> (tx # <<>>)

\* ---------------------------------------------------------------- C16: ever-discovered latch

\* update() runs handlePacket on a well-formed DISCOVER request for an occupied
\* address, the one case in which a discovery response is sent.
SendsDiscoveryResponse ==
    \E a \in 1..MAX_SENSORS :
        /\ Polls(DiscoverRequest(a))
        /\ sensors[a - 1].hasValue
        /\ tx' = tx \o DiscoverRequest(a)

\* C16: _anyDiscovered is false after construction; a step makes it true exactly when
\* it is a poll that sends a discovery response (so no TYPE or MEASUREMENT poll, no
\* DISCOVER for an unoccupied address, no malformed frame, no begin or setSensorValue
\* sets it); and once true it stays true.
C16_EverDiscoveredLatch ==
    /\ ~anyDiscovered
    /\ [][anyDiscovered' = (anyDiscovered \/ SendsDiscoveryResponse)]_vars

\* The flag is set, and after it was set a second poll has written a TYPE response.
C16_Witness ==
    /\ anyDiscovered
    /\ packetCount = 2
    /\ responseCount = 2
    /\ Len(tx) = 6
    /\ tx[2] \div 16 = 9

\* ---------------------------------------------------------------- C17: short buffer

\* C17: update() called with fewer than 4 bytes buffered consumes none of them, writes
\* nothing, and leaves both counters, the ever-discovered flag and the registry as
\* they were.
C17_NonConsumingPoll ==
    [][(Len(rx) < 4 /\ Update)
       => UNCHANGED <<rx, tx, packetCount, responseCount, anyDiscovered, sensors>>]_vars

\* update() has run on a partial packet before any packet was consumed, and three
\* bytes are waiting in the buffer.
C17_Witness ==
    /\ shortPoll
    /\ packetCount = 0
    /\ Len(rx) = 3

\* ---------------------------------------------------------------- C18: frames received

\* C18: every update() that finds at least 4 bytes buffered adds exactly 1 to
\* _packetCount, whatever the frame; when the frame is malformed the step changes
\* nothing else the application can observe: no response is counted or written, and
\* the registry and the ever-discovered flag stay as they were.
C18_FramesReceivedAccounting ==
    [][(serial /\ Len(rx) >= 4 /\ Update)
       => /\ packetCount' = packetCount + 1
          /\ Malformed(SubSeq(rx, 1, 4))
             => UNCHANGED <<responseCount, tx, sensors, anyDiscovered, serial>>]_vars

\* A malformed frame and an answered request have both been counted.
C18_Witness ==
    /\ malformedPolled
    /\ packetCount = 2
    /\ responseCount = 1

\* ---------------------------------------------------------------- C19: contiguous prefix

\* C19: in every reachable state the occupied slots are exactly the slots 0..k-1 for
\* some k in 0..4, and every unoccupied slot still has type 0xFF and value 0.
C19_ContiguousPrefix ==
    /\ \E k \in 0..MAX_SENSORS :
          \A i \in 0..(MAX_SENSORS - 1) : sensors[i].hasValue <=> i < k
    /\ \A i \in 0..(MAX_SENSORS - 1) :
          ~sensors[i].hasValue => (sensors[i].type = 255 /\ sensors[i].value = 0)

\* Two sensor types are registered, in slots 0 and 1, and slots 2 and 3 are untouched.
C19_Witness ==
    /\ sensors[0].hasValue
    /\ sensors[1].hasValue
    /\ ~sensors[2].hasValue
    /\ ~sensors[3].hasValue
    /\ sensors[3].type = 255

\* ---------------------------------------------------------------- C20: responses sent

\* The number of frames in a sequence of bytes written to the wire, each frame
\* starting with its own length (0x04 or 0x06).
RECURSIVE CountFrames(_)
CountFrames(bytes) ==
    IF bytes = <<>> THEN 0
    ELSE 1 + CountFrames(SubSeq(bytes, bytes[1] + 1, Len(bytes)))

\* The number of response frames a step has written to the transport.
FramesWritten ==
    IF Len(tx') > Len(tx) /\ SubSeq(tx', 1, Len(tx)) = tx
    THEN CountFrames(Written)
    ELSE 0

\* C20: _responseCount is the number of response frames written to the transport so
\* far (0 after construction, and every step adds to it the number of frames the step
\* writes), and it never exceeds _packetCount.
C20_ResponseAccounting ==
    /\ responseCount = 0
    /\ [][responseCount' = responseCount + FramesWritten]_vars
    /\ [](responseCount <= packetCount)

\* Two frames received, both answered: a discovery echo first, whose four bytes the
\* master has read, then a MEASUREMENT response.
C20_Witness ==
    /\ packetCount = 2
    /\ responseCount = 2
    /\ anyDiscovered
    /\ Len(tx) = 6
    /\ tx[2] \div 16 = 10

====
